---------------------------- MODULE Spec2Model ----------------------------
(***************************************************************************)
(* Model of src/pages/index.vue: the thump detector (startDetection,       *)
(* detectThump / processAudio, stopListening) and the scoring function     *)
(* calculateRipeness.                                                      *)
(*                                                                         *)
(* Numbers.  The source computes in IEEE doubles.  The model computes in   *)
(* exact rationals [n, d] kept in lowest terms with d >= 0; d = 0 stands   *)
(* for the non-finite values: [0, 0] is NaN, [1, 0] and [-1, 0] are the    *)
(* infinities.  The inputs are chosen so that every intermediate value is  *)
(* an exact rational: sample rates are whole multiples of the FFT size and *)
(* masses are perfect cubes (so that m ** (2/3) is a whole number).        *)
(***************************************************************************)
EXTENDS Integers, Sequences, FiniteSets, TLC

(***************************************************************************)
(* Bounds of the model.                                                    *)
(***************************************************************************)
\* Sessions (clicks on the start button) in one behaviour.
MaxSessions == 2
\* Frames are given on bins 0 .. LastBin; no modelled band reads beyond it.
LastBin == 5

(***************************************************************************)
(* Program constants.                                                      *)
(***************************************************************************)
fftSize == 16384
relevantFreqMin == 100
relevantFreqMax == 300
ripeThreshold == 60000
unripeThreshold == 95000

(***************************************************************************)
(* Input sets.                                                             *)
(***************************************************************************)
\* audioContext.sampleRate: 50, 70 and 700 Hz per bin, which make the band
\* bins 2..5, bins 1..3 and, at the pathological last rate, no bin at all.
SampleRates == {50 * fftSize, 70 * fftSize, 700 * fftSize}
\* Byte magnitudes delivered by getByteFrequencyData.
Levels == {0, 1, 200, 255}
\* Frames: a flat floor with at most one bin standing out.
FramesOver(levels) ==
  { [i \in 0..LastBin |-> IF i = k THEN p ELSE b] :
      b \in levels, p \in levels, k \in 0..LastBin }
\* The frames a function is applied to on its own.
Frames == FramesOver(Levels)
\* The frames delivered to a running session: silence, a full-scale flat
\* frame, one full-scale bin over silence, one silent bin in a full-scale frame.
TickFrames == FramesOver({0, 255})
\* The sensitivity slider: min 1, max 20.
Sensitivities == 1..20
\* What the mass field can hold: perfect cubes, zero and a negative value.
MassInputs == {-1, 0, 1, 8, 27}
\* How far beyond the slider's range 1..20 the threshold functions are applied.
SensitivityMargin == 25
\* Half-width, in halves of a unit, of the window of ripeness indices taken
\* around each boundary of the scoring function.
IndexWindow == 3
\* The boundaries of the scoring function: of the verdict (74000, 85000), of
\* the score (60000, 95000) and of the sweetness (52500, 112500).
IndexAnchors == {0, 52500, 60000, 74000, 85000, 95000, 112500, 200000}

(***************************************************************************)
(* Numbers.                                                                *)
(***************************************************************************)
Abs(x) == IF x < 0 THEN -x ELSE x

Sign(x) == IF x < 0 THEN -1 ELSE IF x = 0 THEN 0 ELSE 1

RECURSIVE GCD(_, _)
GCD(a, b) == IF b = 0 THEN a ELSE GCD(b, a % b)

\* The number n / d.
Num(n, d) ==
  IF d = 0 THEN [n |-> Sign(n), d |-> 0]
  ELSE LET g == GCD(Abs(n), Abs(d))
       IN  [n |-> Sign(d) * (n \div g), d |-> Abs(d) \div g]

FromInt(k) == [n |-> k, d |-> 1]

NaN == [n |-> 0, d |-> 0]

IsNaN(a) == a.n = 0 /\ a.d = 0

NAdd(a, b) ==
  IF IsNaN(a) \/ IsNaN(b) THEN NaN
  ELSE Num(a.n * b.d + b.n * a.d, a.d * b.d)

NSub(a, b) == NAdd(a, [n |-> -b.n, d |-> b.d])

NMul(a, b) ==
  IF IsNaN(a) \/ IsNaN(b) THEN NaN
  ELSE LET g1 == GCD(Abs(a.n), b.d)
           g2 == GCD(Abs(b.n), a.d)
           h1 == IF g1 = 0 THEN 1 ELSE g1
           h2 == IF g2 = 0 THEN 1 ELSE g2
       IN  Num((a.n \div h1) * (b.n \div h2), (a.d \div h2) * (b.d \div h1))

NDiv(a, b) ==
  IF IsNaN(a) \/ IsNaN(b) THEN NaN
  ELSE NMul(a, Num(b.d, b.n))

\* a > b and a < b: every comparison with NaN is false.
NGreater(a, b) == ~IsNaN(a) /\ ~IsNaN(b) /\ a.n * b.d > b.n * a.d

NLess(a, b) == NGreater(b, a)

\* Math.max and Math.min: NaN if either argument is NaN.
MathMax(a, b) ==
  IF IsNaN(a) \/ IsNaN(b) THEN NaN ELSE IF NGreater(b, a) THEN b ELSE a

MathMin(a, b) ==
  IF IsNaN(a) \/ IsNaN(b) THEN NaN ELSE IF NLess(b, a) THEN b ELSE a

\* Math.round of a finite number: the nearest integer, halves rounded up.
MathRound(a) == (2 * a.n + a.d) \div (2 * a.d)

\* m ** (2 / 3) for a mass that is a perfect cube.
Pow23(m) == LET c == CHOOSE c \in 0..m : c * c * c = m IN FromInt(c * c)

(***************************************************************************)
(* Detection: the computed thresholds and the body of processAudio.        *)
(***************************************************************************)
\* isMassValid accepting a mass of zero.
isMassValidOrZero(m) == m >= 0

isMassValid(m) == m > 0

\* absoluteThreshold with the sensitivity clamped to the slider's range.
absoluteThresholdClamped(s) ==
  160 - ((IF s < 1 THEN 1 ELSE IF s > 20 THEN 20 ELSE s) * 10)

absoluteThreshold(s) == 160 - (s * 10)

\* relativeThreshold stopping at 15, the lowest value its comment names.
relativeThresholdFloor(s) == IF 45 - (s * 3) < 15 THEN 15 ELSE 45 - (s * 3)

relativeThreshold(s) == 45 - (s * 3)

\* sampleRate / analyser.fftSize: the width of one bin in Hz.
BinHz(sampleRate) == NDiv(FromInt(sampleRate), FromInt(fftSize))

minIndexOf(sampleRate) ==
  MathRound(NDiv(FromInt(relevantFreqMin), BinHz(sampleRate)))

maxIndexOf(sampleRate) ==
  MathRound(NDiv(FromInt(relevantFreqMax), BinHz(sampleRate)))

\* The for loop over bins i .. maxIndex - 1, from the running values in acc.
RECURSIVE ScanBand(_, _, _, _)
ScanBand(dataArray, i, maxIndex, acc) ==
  IF i < maxIndex
  THEN ScanBand(dataArray, i + 1, maxIndex,
         [totalAmplitude |-> acc.totalAmplitude + dataArray[i],
          peakAmplitude  |-> IF dataArray[i] > acc.peakAmplitude
                             THEN dataArray[i] ELSE acc.peakAmplitude,
          peakIndex      |-> IF dataArray[i] > acc.peakAmplitude
                             THEN i ELSE acc.peakIndex])
  ELSE acc

\* averageAmplitudeOf with the empty band guarded as an average of 0.
averageAmplitudeOrZero(totalAmplitude, minIndex, maxIndex) ==
  IF maxIndex - minIndex = 0 THEN FromInt(0)
  ELSE NDiv(FromInt(totalAmplitude), FromInt(maxIndex - minIndex))

averageAmplitudeOf(totalAmplitude, minIndex, maxIndex) ==
  NDiv(FromInt(totalAmplitude), FromInt(maxIndex - minIndex))

\* IsThump without the relative condition.
IsThumpAbsoluteOnly(peakAmplitude, averageAmplitude, s) ==
  peakAmplitude > absoluteThreshold(s)

\* The condition of the if statement that declares a thump.
IsThump(peakAmplitude, averageAmplitude, s) ==
  /\ peakAmplitude > absoluteThreshold(s)
  /\ NGreater(FromInt(peakAmplitude),
              NAdd(averageAmplitude, FromInt(relativeThreshold(s))))

\* The locals of one run of processAudio on a frame.
Analyse(dataArray, sampleRate, s) ==
  LET minIndex == minIndexOf(sampleRate)
      maxIndex == maxIndexOf(sampleRate)
      scan == ScanBand(dataArray, minIndex, maxIndex,
                [totalAmplitude |-> 0, peakAmplitude |-> 0, peakIndex |-> 0])
      averageAmplitude ==
        averageAmplitudeOf(scan.totalAmplitude, minIndex, maxIndex)
  IN  [minIndex         |-> minIndex,
       maxIndex         |-> maxIndex,
       peakAmplitude    |-> scan.peakAmplitude,
       peakIndex        |-> scan.peakIndex,
       averageAmplitude |-> averageAmplitude,
       thump            |-> IsThump(scan.peakAmplitude, averageAmplitude, s),
       baseFrequency    |-> NMul(FromInt(scan.peakIndex), BinHz(sampleRate))]

(***************************************************************************)
(* Scoring: the body of calculateRipeness.                                 *)
(***************************************************************************)
\* null in a field that otherwise holds a number.
Null == [n |-> 0, d |-> -1]

NoResult ==
  [baseFrequency |-> Null, ripenessIndex |-> Null,
   ripenessScore |-> Null, sweetnessBrix |-> Null,
   verdict |-> "", ripenessClass |-> ""]

ripenessIndexOf(f, m) == NMul(NMul(f, f), Pow23(m))

\* ripenessClassOf with the first boundary given to "ripe".
ripenessClassInclusive(ripenessIndex) ==
  IF ~NGreater(ripenessIndex, FromInt(74000)) THEN "ripe"
  ELSE IF NLess(ripenessIndex, FromInt(85000)) THEN "borderline"
  ELSE "unripe"

ripenessClassOf(ripenessIndex) ==
  IF NLess(ripenessIndex, FromInt(74000)) THEN "ripe"
  ELSE IF NLess(ripenessIndex, FromInt(85000)) THEN "borderline"
  ELSE "unripe"

verdictOf(ripenessIndex) ==
  IF NLess(ripenessIndex, FromInt(74000)) THEN "just right"
  ELSE IF NLess(ripenessIndex, FromInt(85000)) THEN "does not sound good"
  ELSE "raw melon"

\* sweetnessBrixOf without the lower clamp.
sweetnessBrixNoFloor(ripenessIndex) ==
  LET sweetness ==
        NSub(FromInt(12),
             NMul(FromInt(4),
                  NDiv(NSub(ripenessIndex, FromInt(60000)), FromInt(30000))))
  IN  MathMin(FromInt(13), sweetness)

sweetnessBrixOf(ripenessIndex) ==
  LET sweetness ==
        NSub(FromInt(12),
             NMul(FromInt(4),
                  NDiv(NSub(ripenessIndex, FromInt(60000)), FromInt(30000))))
  IN  MathMax(FromInt(5), MathMin(FromInt(13), sweetness))

\* ripenessScoreOf clamped to 10 instead of 100.
ripenessScoreOutOfTen(ripenessIndex) ==
  LET score ==
        NDiv(NMul(FromInt(100), NSub(FromInt(unripeThreshold), ripenessIndex)),
             FromInt(unripeThreshold - ripeThreshold))
  IN  MathMax(FromInt(0), MathMin(FromInt(10), score))

ripenessScoreOf(ripenessIndex) ==
  LET score ==
        NDiv(NMul(FromInt(100), NSub(FromInt(unripeThreshold), ripenessIndex)),
             FromInt(unripeThreshold - ripeThreshold))
  IN  MathMax(FromInt(0), MathMin(FromInt(100), score))

\* calculateRipeness without the assignment of the score.
calculateRipenessNoScore(frequency, m, res) ==
  IF m <= 0 THEN res
  ELSE LET ripenessIndex == ripenessIndexOf(frequency, m)
       IN  [baseFrequency |-> frequency,
            ripenessIndex |-> ripenessIndex,
            ripenessScore |-> res.ripenessScore,
            sweetnessBrix |-> sweetnessBrixOf(ripenessIndex),
            verdict       |-> verdictOf(ripenessIndex),
            ripenessClass |-> ripenessClassOf(ripenessIndex)]

\* calculateRipeness that returns early for a negative mass only.
calculateRipenessNegativeOnly(frequency, m, res) ==
  IF m < 0 THEN res
  ELSE LET ripenessIndex == ripenessIndexOf(frequency, m)
       IN  [baseFrequency |-> frequency,
            ripenessIndex |-> ripenessIndex,
            ripenessScore |-> ripenessScoreOf(ripenessIndex),
            sweetnessBrix |-> sweetnessBrixOf(ripenessIndex),
            verdict       |-> verdictOf(ripenessIndex),
            ripenessClass |-> ripenessClassOf(ripenessIndex)]

\* calculateRipeness(frequency) with massKg = m: the new value of result.
calculateRipeness(frequency, m, res) ==
  IF m <= 0 THEN res
  ELSE LET ripenessIndex == ripenessIndexOf(frequency, m)
       IN  [baseFrequency |-> frequency,
            ripenessIndex |-> ripenessIndex,
            ripenessScore |-> ripenessScoreOf(ripenessIndex),
            sweetnessBrix |-> sweetnessBrixOf(ripenessIndex),
            verdict       |-> verdictOf(ripenessIndex),
            ripenessClass |-> ripenessClassOf(ripenessIndex)]

(***************************************************************************)
(* State.                                                                  *)
(***************************************************************************)
VARIABLES
  massKg,           \* ref massKg
  sensitivity,      \* ref sensitivity
  isListening,      \* ref isListening
  error,            \* ref error: "null" or the message shown
  result,           \* reactive result
  audioContext,     \* let audioContext
  analyser,         \* let analyser: TRUE iff not null
  animationFrameId, \* let animationFrameId: 0 for null
  mediaStream,      \* let mediaStream: 0 for null, else the stream
  mounted,          \* the component is mounted (onUnmounted has not run)
  supported,        \* navigator.mediaDevices.getUserMedia exists
  awaiting,         \* startDetection calls suspended at await getUserMedia
  rafQueue,         \* frame callbacks requested and neither run nor cancelled
  liveStreams,      \* streams whose tracks have not been stopped
  session,          \* number of sessions started so far
  log,              \* history of each session
  lastClick,        \* history: what the last click on the start button did
  probe,            \* input of a function applied on its own
  probeOut          \* its output

vars ==
  <<massKg, sensitivity, isListening, error, result, audioContext, analyser,
    animationFrameId, mediaStream, mounted, supported, awaiting, rafQueue,
    liveStreams, session, log, lastClick, probe, probeOut>>

Sessions == 1..MaxSessions

NoContext == [sampleRate |-> 0, state |-> "null"]

NoLog ==
  [stopped |-> FALSE, detections |-> 0,
   evalAfterStop |-> FALSE, evalAfterDetection |-> FALSE]

NoProbe == [kind |-> "none"]

\* The state after setup(), with the mass field as the user has left it.
InitProgram ==
  /\ massKg \in MassInputs
  /\ sensitivity = 8
  /\ isListening = FALSE
  /\ error = "null"
  /\ result = NoResult
  /\ audioContext = NoContext
  /\ analyser = FALSE
  /\ animationFrameId = 0
  /\ mediaStream = 0
  /\ mounted = TRUE
  /\ supported \in BOOLEAN
  /\ awaiting = {}
  /\ rafQueue = {}
  /\ liveStreams = {}
  /\ session = 0
  /\ log = [s \in Sessions |-> NoLog]
  /\ lastClick = "none"

Init == InitProgram /\ probe = NoProbe /\ probeOut = NoProbe

(***************************************************************************)
(* Operations.                                                             *)
(***************************************************************************)
\* A handle requestAnimationFrame has not handed out among those still around.
FreshHandle(queue) ==
  CHOOSE h \in 1..(Cardinality(queue) + 2) :
    h # animationFrameId /\ \A cb \in queue : cb.id # h

\* stopListening with isListening toggled instead of cleared.
stopListeningToggles(queue, lg) ==
  /\ rafQueue' = IF animationFrameId # 0
                 THEN {cb \in queue : cb.id # animationFrameId}
                 ELSE queue
  /\ animationFrameId' = 0
  /\ liveStreams' = liveStreams \ {mediaStream}
  /\ audioContext' = IF audioContext.state = "null" THEN audioContext
                     ELSE [audioContext EXCEPT !.state = "closed"]
  /\ isListening' = ~isListening
  /\ log' = IF session = 0 THEN lg
            ELSE [lg EXCEPT ![session].stopped = TRUE]

\* stopListening(), run when the callback queue is queue and the history lg.
stopListening(queue, lg) ==
  /\ rafQueue' = IF animationFrameId # 0
                 THEN {cb \in queue : cb.id # animationFrameId}
                 ELSE queue
  /\ animationFrameId' = 0
  /\ liveStreams' = liveStreams \ {mediaStream}
  /\ audioContext' = IF audioContext.state = "null" THEN audioContext
                     ELSE [audioContext EXCEPT !.state = "closed"]
  /\ isListening' = FALSE
  /\ log' = IF session = 0 THEN lg
            ELSE [lg EXCEPT ![session].stopped = TRUE]

\* ClickStart without the reset of the previous result.
ClickStartKeepsResult ==
  /\ mounted
  /\ ~(isListening \/ ~isMassValid(massKg))
  /\ session < MaxSessions
  /\ lastClick' = "handled"
  /\ IF ~supported
     THEN /\ error' = "unsupported"
          /\ UNCHANGED <<result, isListening, session, awaiting>>
     ELSE /\ error' = "null"
          /\ isListening' = TRUE
          /\ session' = session + 1
          /\ awaiting' = awaiting \cup {session + 1}
          /\ UNCHANGED result
  /\ UNCHANGED <<massKg, sensitivity, audioContext, analyser, animationFrameId,
                 mediaStream, mounted, supported, rafQueue, liveStreams, log,
                 probe, probeOut>>

\* A click on the start button while it is enabled: startDetection() up to
\* its await.
ClickStart ==
  /\ mounted
  /\ ~(isListening \/ ~isMassValid(massKg))
  /\ session < MaxSessions
  /\ lastClick' = "handled"
  /\ IF ~supported
     THEN /\ error' = "unsupported"
          /\ UNCHANGED <<result, isListening, session, awaiting>>
     ELSE /\ result' = NoResult
          /\ error' = "null"
          /\ isListening' = TRUE
          /\ session' = session + 1
          /\ awaiting' = awaiting \cup {session + 1}
  /\ UNCHANGED <<massKg, sensitivity, audioContext, analyser, animationFrameId,
                 mediaStream, mounted, supported, rafQueue, liveStreams, log,
                 probe, probeOut>>

\* A click on the start button while it is disabled: no handler runs.
ClickStartDisabled ==
  /\ mounted
  /\ isListening \/ ~isMassValid(massKg)
  /\ lastClick' = "ignored"
  /\ UNCHANGED <<massKg, sensitivity, isListening, error, result, audioContext,
                 analyser, animationFrameId, mediaStream, mounted, supported,
                 awaiting, rafQueue, liveStreams, session, log, probe,
                 probeOut>>

\* GetUserMediaRejects with a catch block that leaves isListening set.
GetUserMediaRejectsStillListening(s) ==
  /\ s \in awaiting
  /\ awaiting' = awaiting \ {s}
  /\ error' = "microphone"
  /\ UNCHANGED <<massKg, sensitivity, result, audioContext, analyser,
                 animationFrameId, mediaStream, mounted, supported, rafQueue,
                 liveStreams, session, log, lastClick, probe, probeOut,
                 isListening>>

\* getUserMedia rejects: the catch block of startDetection.
GetUserMediaRejects(s) ==
  /\ s \in awaiting
  /\ awaiting' = awaiting \ {s}
  /\ error' = "microphone"
  /\ isListening' = FALSE
  /\ UNCHANGED <<massKg, sensitivity, result, audioContext, analyser,
                 animationFrameId, mediaStream, mounted, supported, rafQueue,
                 liveStreams, session, log, lastClick, probe, probeOut>>

\* detectThump(), called for session s: the first requestAnimationFrame.
detectThump(s, ctx, an) ==
  IF ~an \/ ctx.state = "null"
  THEN UNCHANGED <<animationFrameId, rafQueue>>
  ELSE LET h == FreshHandle(rafQueue)
       IN  /\ animationFrameId' = h
           /\ rafQueue' = rafQueue \cup {[id |-> h, session |-> s]}

\* getUserMedia resolves with a stream: the rest of the try block.  outcome
\* names the statement that throws, if any; rate is the rate of the context.
GetUserMediaResolves(s, outcome, rate) ==
  /\ s \in awaiting
  /\ awaiting' = awaiting \ {s}
  /\ mediaStream' = s
  /\ liveStreams' = liveStreams \cup {s}
  /\ audioContext' = IF outcome = "AudioContext" THEN audioContext
                     ELSE [sampleRate |-> rate, state |-> "running"]
  /\ analyser' = IF outcome = "ok" THEN TRUE ELSE analyser
  /\ IF outcome = "ok"
     THEN /\ detectThump(s, audioContext', analyser')
          /\ UNCHANGED <<error, isListening>>
     ELSE /\ error' = "microphone"
          /\ isListening' = FALSE
          /\ UNCHANGED <<animationFrameId, rafQueue>>
  /\ UNCHANGED <<massKg, sensitivity, result, mounted, supported, session, log,
                 lastClick, probe, probeOut>>

\* The history after a frame of session s is evaluated.
Evaluated(s) ==
  [log EXCEPT ![s].evalAfterStop = @ \/ log[s].stopped,
              ![s].evalAfterDetection = @ \/ (log[s].detections > 0)]

\* processAudio with the next frame requested after the if statement instead
\* of in its else branch.
processAudioAlwaysRequests(cb, dataArray) ==
  /\ cb \in rafQueue
  /\ LET a == Analyse(dataArray, audioContext.sampleRate, sensitivity)
         queue == rafQueue \ {cb}
         lg == Evaluated(cb.session)
         h == FreshHandle(queue)
     IN  /\ animationFrameId' = h
         /\ rafQueue' = queue \cup {[id |-> h, session |-> cb.session]}
         /\ IF a.thump
            THEN /\ result' =
                      calculateRipeness(a.baseFrequency, massKg, result)
                 /\ liveStreams' = liveStreams \ {mediaStream}
                 /\ audioContext' = [audioContext EXCEPT !.state = "closed"]
                 /\ isListening' = FALSE
                 /\ log' = [lg EXCEPT ![cb.session].detections = @ + 1,
                                      ![session].stopped = TRUE]
            ELSE /\ log' = lg
                 /\ UNCHANGED <<result, liveStreams, audioContext,
                                isListening>>
  /\ UNCHANGED <<massKg, sensitivity, error, analyser, mediaStream, mounted,
                 supported, awaiting, session, lastClick, probe, probeOut>>

\* processAudio that requests no further frame after a frame without a thump.
processAudioNoRequest(cb, dataArray) ==
  /\ cb \in rafQueue
  /\ LET a == Analyse(dataArray, audioContext.sampleRate, sensitivity)
         queue == rafQueue \ {cb}
         lg == Evaluated(cb.session)
     IN  IF a.thump
         THEN /\ result' = calculateRipeness(a.baseFrequency, massKg, result)
              /\ stopListening(queue,
                   [lg EXCEPT ![cb.session].detections = @ + 1])
         ELSE /\ rafQueue' = queue
              /\ log' = lg
              /\ UNCHANGED <<result, liveStreams, audioContext, isListening,
                             animationFrameId>>
  /\ UNCHANGED <<massKg, sensitivity, error, analyser, mediaStream, mounted,
                 supported, awaiting, session, lastClick, probe, probeOut>>

\* A frame callback runs: processAudio() on the frame dataArray.
processAudio(cb, dataArray) ==
  /\ cb \in rafQueue
  /\ LET a == Analyse(dataArray, audioContext.sampleRate, sensitivity)
         queue == rafQueue \ {cb}
         lg == Evaluated(cb.session)
     IN  IF a.thump
         THEN /\ result' = calculateRipeness(a.baseFrequency, massKg, result)
              /\ stopListening(queue,
                   [lg EXCEPT ![cb.session].detections = @ + 1])
         ELSE LET h == FreshHandle(queue)
              IN  /\ animationFrameId' = h
                  /\ rafQueue' = queue \cup {[id |-> h, session |-> cb.session]}
                  /\ log' = lg
                  /\ UNCHANGED <<result, liveStreams, audioContext,
                                 isListening>>
  /\ UNCHANGED <<massKg, sensitivity, error, analyser, mediaStream, mounted,
                 supported, awaiting, session, lastClick, probe, probeOut>>

\* onUnmounted.
Unmount ==
  /\ mounted
  /\ mounted' = FALSE
  /\ stopListening(rafQueue, log)
  /\ UNCHANGED <<massKg, sensitivity, error, result, analyser, mediaStream,
                 supported, awaiting, session, lastClick, probe, probeOut>>

\* The mass field, disabled while isListening.
SetMass(m) ==
  /\ mounted
  /\ ~isListening
  /\ m # massKg
  /\ massKg' = m
  /\ UNCHANGED <<sensitivity, isListening, error, result, audioContext,
                 analyser, animationFrameId, mediaStream, mounted, supported,
                 awaiting, rafQueue, liveStreams, session, log, lastClick,
                 probe, probeOut>>

\* SetSensitivity with a slider that is never disabled.
SetSensitivityWhileListening(s) ==
  /\ mounted
  /\ s # sensitivity
  /\ sensitivity' = s
  /\ UNCHANGED <<massKg, isListening, error, result, audioContext, analyser,
                 animationFrameId, mediaStream, mounted, supported, awaiting,
                 rafQueue, liveStreams, session, log, lastClick, probe,
                 probeOut>>

\* The sensitivity slider, disabled while isListening.
SetSensitivity(s) ==
  /\ mounted
  /\ ~isListening
  /\ s # sensitivity
  /\ sensitivity' = s
  /\ UNCHANGED <<massKg, isListening, error, result, audioContext, analyser,
                 animationFrameId, mediaStream, mounted, supported, awaiting,
                 rafQueue, liveStreams, session, log, lastClick, probe,
                 probeOut>>

Next ==
  \/ ClickStart
  \/ ClickStartDisabled
  \/ \E s \in Sessions : GetUserMediaRejects(s)
  \/ \E s \in Sessions, rate \in SampleRates,
        outcome \in {"ok", "AudioContext", "createMediaStreamSource",
                     "createAnalyser"} :
       GetUserMediaResolves(s, outcome, rate)
  \/ \E cb \in rafQueue, dataArray \in TickFrames : processAudio(cb, dataArray)
  \/ Unmount
  \/ \E m \in MassInputs : SetMass(m)
  \/ \E s \in Sensitivities : SetSensitivity(s)

Spec == Init /\ [][Next]_vars

(***************************************************************************)
(* The detection rule and the scoring function applied on their own.       *)
(***************************************************************************)
\* Ripeness indices: a window of half units around each boundary, and a grid.
IndexInputs ==
  { Num(2 * a + k, 2) : a \in IndexAnchors, k \in (0 - IndexWindow)..IndexWindow }
    \cup { FromInt(5000 * k) : k \in 0..24 }

InitDetect ==
  /\ InitProgram
  /\ massKg = 8
  /\ supported
  /\ probe \in { [kind |-> "detect", sensitivity |-> s, sampleRate |-> r,
                  dataArray |-> f] :
                 s \in Sensitivities, r \in SampleRates, f \in Frames }
  /\ probeOut = NoProbe

\* One run of the body of processAudio on the frame of the probe.
ApplyDetect ==
  /\ probe.kind = "detect"
  /\ probeOut = NoProbe
  /\ probeOut' = Analyse(probe.dataArray, probe.sampleRate, probe.sensitivity)
  /\ UNCHANGED <<massKg, sensitivity, isListening, error, result, audioContext,
                 analyser, animationFrameId, mediaStream, mounted, supported,
                 awaiting, rafQueue, liveStreams, session, log, lastClick,
                 probe>>

SpecDetect == InitDetect /\ [][ApplyDetect]_vars

InitCalc ==
  /\ InitProgram
  /\ massKg = 8
  /\ supported
  /\ probe \in { [kind |-> "calc", ripenessIndex |-> x] :
                 x \in { y \in IndexInputs : y.n >= 0 } }
  /\ probeOut = NoProbe

\* The part of calculateRipeness that follows the computation of the index.
ApplyCalc ==
  /\ probe.kind = "calc"
  /\ probeOut = NoProbe
  /\ probeOut' = [ripenessClass |-> ripenessClassOf(probe.ripenessIndex),
                  verdict       |-> verdictOf(probe.ripenessIndex),
                  sweetnessBrix |-> sweetnessBrixOf(probe.ripenessIndex),
                  ripenessScore |-> ripenessScoreOf(probe.ripenessIndex)]
  /\ UNCHANGED <<massKg, sensitivity, isListening, error, result, audioContext,
                 analyser, animationFrameId, mediaStream, mounted, supported,
                 awaiting, rafQueue, liveStreams, session, log, lastClick,
                 probe>>

SpecCalc == InitCalc /\ [][ApplyCalc]_vars

(***************************************************************************)
(* Properties of the detection rule (under SpecDetect).                    *)
(***************************************************************************)
DetectApplied == probe.kind = "detect" /\ probeOut # NoProbe

\* The bins [minIndex, maxIndex) of the probe.
ProbeBand ==
  minIndexOf(probe.sampleRate)..(maxIndexOf(probe.sampleRate) - 1)

MaxOver(dataArray, bins) ==
  CHOOSE x \in {dataArray[i] : i \in bins} :
    \A i \in bins : dataArray[i] <= x

RECURSIVE SumOver(_, _)
SumOver(dataArray, bins) ==
  IF bins = {} THEN 0
  ELSE LET i == CHOOSE j \in bins : TRUE
       IN  dataArray[i] + SumOver(dataArray, bins \ {i})

\* C1: on a non-degenerate band a thump is declared iff the maximum of the
\* band exceeds absoluteThreshold and exceeds the arithmetic mean of the band
\* by more than relativeThreshold.
C1_DetectionRule ==
  (DetectApplied /\ ProbeBand # {}) =>
    LET peak  == MaxOver(probe.dataArray, ProbeBand)
        total == SumOver(probe.dataArray, ProbeBand)
        n     == Cardinality(ProbeBand)
    IN  probeOut.thump <=>
          /\ peak > absoluteThreshold(probe.sensitivity)
          /\ peak * n > total + relativeThreshold(probe.sensitivity) * n

\* A frame with one loud bin over silence is declared at the default
\* sensitivity.
C1_Witness ==
  /\ DetectApplied
  /\ ProbeBand # {}
  /\ probe.sensitivity = 8
  /\ probeOut.thump
  /\ probeOut.peakAmplitude = 255
  /\ \E i \in ProbeBand : probe.dataArray[i] = 0

\* C3: on a non-degenerate band a frame whose in-band magnitudes are all
\* equal is never declared a thump, at any sensitivity.
C3_FlatFrameRejected ==
  (/\ DetectApplied
   /\ ProbeBand # {}
   /\ \A i, j \in ProbeBand : probe.dataArray[i] = probe.dataArray[j])
    => ~probeOut.thump

\* C4: with minIndex >= maxIndex no frame is declared a thump, at any
\* sensitivity.
C4_DegenerateBandSilent ==
  (DetectApplied /\ probeOut.minIndex >= probeOut.maxIndex) => ~probeOut.thump

\* A degenerate band at a sensitivity whose absolute threshold is negative,
\* so that a peak of 0 passes the absolute condition.
C4_Witness ==
  /\ DetectApplied
  /\ probeOut.minIndex >= probeOut.maxIndex
  /\ absoluteThreshold(probe.sensitivity) < 0
  /\ ~probeOut.thump

(***************************************************************************)
(* Properties of the scoring function (under SpecCalc).                    *)
(***************************************************************************)
CalcApplied == probe.kind = "calc" /\ probeOut # NoProbe

\* lo <= x <= hi for a finite number x.
Within(x, lo, hi) == x.d > 0 /\ lo * x.d <= x.n /\ x.n <= hi * x.d

\* C8: the class is "ripe" iff ripenessIndex < 74000, "borderline" iff
\* 74000 <= ripenessIndex < 85000 and "unripe" iff ripenessIndex >= 85000.
C8_VerdictClasses ==
  CalcApplied =>
    LET x == probe.ripenessIndex
        c == probeOut.ripenessClass
    IN  /\ c \in {"ripe", "borderline", "unripe"}
        /\ c = "ripe" <=> x.n < 74000 * x.d
        /\ c = "borderline" <=> (74000 * x.d <= x.n /\ x.n < 85000 * x.d)
        /\ c = "unripe" <=> x.n >= 85000 * x.d

\* The boundary 74000 itself is classified.
C8_Witness ==
  /\ CalcApplied
  /\ probe.ripenessIndex = FromInt(74000)
  /\ probeOut.ripenessClass = "borderline"

C2_NoEvaluationAfterStop ==
  \A s \in Sessions :
    log[s].stopped =>
      /\ ~log[s].evalAfterStop
      /\ \A cb \in rafQueue : cb.session # s

\* C5 as stated: a start attempted with mass <= 0 reports a validation error.
C5_ValidationErrorReported ==
  (lastClick = "ignored" /\ massKg <= 0 /\ ~isListening) => error # "null"

\* C5 as amended: while mass <= 0 and the detector is idle, no step starts a
\* session: isListening stays false, no capture is requested, no frame
\* callback is scheduled, and the error message is left as it is.
C5_InvalidMassNeverStarts ==
  [][(massKg <= 0 /\ ~isListening) =>
       /\ ~isListening'
       /\ awaiting' = awaiting
       /\ rafQueue' = rafQueue
       /\ session' = session
       /\ error' = error]_vars

\* The start button was clicked with an invalid mass and the detector is idle.
C5_Witness ==
  /\ lastClick = "ignored"
  /\ massKg <= 0
  /\ ~isListening
  /\ awaiting = {}
  /\ rafQueue = {}
  /\ error = "null"

\* C6: sessions never overlap: at most one chain of frame callbacks is
\* pending and at most one capture stream is live.
C6_NoOverlap ==
  /\ Cardinality(rafQueue) <= 1
  /\ Cardinality(liveStreams) <= 1

\* C7: a session emits at most one detection, and no frame of a session is
\* evaluated after its detection.
C7_AtMostOneDetection ==
  \A s \in Sessions :
    log[s].detections <= 1 /\ ~log[s].evalAfterDetection

\* A session has ended by a detection and a later session is listening with
\* a frame callback pending.
C7_Witness ==
  /\ session = 2
  /\ log[1].detections = 1
  /\ \E cb \in rafQueue : cb.session = 2

\* C9: whenever a result is present, 0 <= ripenessScore <= 100 and
\* 5 <= sweetnessBrix <= 13.
C9_ResultRanges ==
  result # NoResult =>
    /\ Within(result.ripenessScore, 0, 100)
    /\ Within(result.sweetnessBrix, 5, 13)

\* A result whose index lies beyond both lower clamps.
C9_Witness ==
  /\ result # NoResult
  /\ NGreater(result.ripenessIndex, FromInt(112500))
  /\ result.ripenessScore = FromInt(0)
  /\ result.sweetnessBrix = FromInt(5)

(***************************************************************************)
(* The computed thresholds applied on their own, to values of sensitivity  *)
(* inside and outside the range of the slider.                             *)
(***************************************************************************)
InitThresholds ==
  /\ InitProgram
  /\ massKg = 8
  /\ supported
  /\ probe \in { [kind |-> "thresholds", sensitivity |-> s] :
                 s \in (1 - SensitivityMargin)..(20 + SensitivityMargin) }
  /\ probeOut = NoProbe

\* The two computed properties, evaluated for the sensitivity of the probe.
ApplyThresholds ==
  /\ probe.kind = "thresholds"
  /\ probeOut = NoProbe
  /\ probeOut' =
       [absoluteThreshold |-> absoluteThreshold(probe.sensitivity),
        relativeThreshold |-> relativeThreshold(probe.sensitivity)]
  /\ UNCHANGED <<massKg, sensitivity, isListening, error, result, audioContext,
                 analyser, animationFrameId, mediaStream, mounted, supported,
                 awaiting, rafQueue, liveStreams, session, log, lastClick,
                 probe>>

SpecThresholds == InitThresholds /\ [][ApplyThresholds]_vars

ThresholdsApplied == probe.kind = "thresholds" /\ probeOut # NoProbe

\* The sensitivity v brought into the range 1..20.
ClampedSensitivity(v) == IF v < 1 THEN 1 ELSE IF v > 20 THEN 20 ELSE v

C18_PeakInsideBand ==
  (DetectApplied /\ probeOut.thump) =>
    /\ probeOut.minIndex <= probeOut.peakIndex
    /\ probeOut.peakIndex < probeOut.maxIndex

(***************************************************************************)
(* Further properties of the session life cycle (under Spec).              *)
(***************************************************************************)
\* A step in which onUnmounted runs stopListening.
UnmountStep == mounted /\ ~mounted'

\* A step in which a frame is declared a thump.
DetectionStep ==
  \E s \in Sessions : log'[s].detections > log[s].detections

\* A session has a frame callback pending: it is past capture setup.
FramePending == rafQueue # {}

\* C13: stop on an idle detector changes neither isListening, the result, the
\* error message nor the pending-callback handle; a stop that follows an
\* earlier stop of the same session changes nothing more of the capture state.
C13_StopOnIdleIsNoOp ==
  [][(UnmountStep /\ ~isListening) =>
       /\ UNCHANGED <<isListening, result, error, animationFrameId, rafQueue>>
       /\ (session > 0 /\ log[IF session > 0 THEN session ELSE 1].stopped) =>
            UNCHANGED <<liveStreams, audioContext, mediaStream, analyser>>]_vars

\* The component was unmounted after its session had ended by a detection.
C13_Witness ==
  /\ ~mounted
  /\ session = 1
  /\ log[1].detections = 1
  /\ ~log[1].evalAfterStop
  /\ result # NoResult

\* C15: after a capture setup error the detector is idle with the error
\* message set, no frame callback is scheduled and no start is in progress.
C15_SetupErrorAborts ==
  error = "microphone" =>
    /\ ~isListening
    /\ rafQueue = {}
    /\ awaiting = {}

\* The setup of the first session failed after the microphone was granted
\* and the context created.
C15_Witness ==
  /\ error = "microphone"
  /\ session = 1
  /\ mediaStream = 1
  /\ audioContext.state = "running"
  /\ ~analyser

\* C16: while a session is in progress (setup awaited, or a frame callback
\* pending) the mass and the sensitivity, from which every evaluation takes
\* its thresholds and the scoring its mass, keep the values they had at the
\* start of the session.
C16_ConfigurationStable ==
  [][(isListening \/ awaiting # {} \/ FramePending) =>
       /\ massKg' = massKg
       /\ sensitivity' = sensitivity]_vars

\* A session started with a mass and sensitivity other than the defaults has
\* had a frame evaluated and waits for the next one.
C16_Witness ==
  /\ isListening
  /\ FramePending
  /\ animationFrameId = 2
  /\ sensitivity = 12
  /\ massKg = 27

\* A result field is written.
Populated(res) ==
  /\ res.baseFrequency # Null
  /\ res.ripenessIndex # Null
  /\ res.ripenessScore # Null
  /\ res.sweetnessBrix # Null
  /\ res.verdict # ""
  /\ res.ripenessClass # ""

\* C17: the result is cleared when a session starts and stays empty until
\* that session's detection; it changes at no other step, so a previous
\* result persists until the next start.
C17_ResultClearedAtStart ==
  /\ []((session > 0 /\ log[IF session > 0 THEN session ELSE 1].detections = 0)
          => result = NoResult)
  /\ [][result' # result => (session' = session + 1 \/ DetectionStep)]_vars

\* A second session is listening, the result of the first one cleared.
C17_Witness ==
  /\ session = 2
  /\ log[1].detections = 1
  /\ log[2].detections = 0
  /\ isListening
  /\ FramePending
  /\ result = NoResult

\* C19: a session that has ended by a detection has detected once, has left
\* every result field written, and has left the detector idle.
C19_DetectionLeavesResult ==
  (session > 0 /\ log[IF session > 0 THEN session ELSE 1].detections >= 1) =>
    /\ log[session].detections = 1
    /\ Populated(result)
    /\ ~isListening
    /\ rafQueue = {}

\* A session has ended by a detection classified borderline.
C19_Witness ==
  /\ session > 0
  /\ log[IF session > 0 THEN session ELSE 1].detections = 1
  /\ result.ripenessClass = "borderline"
  /\ ~isListening

\* C20: a listening session with a frame pending stays so at every step but
\* a detection or a stop: there is no timeout.
C20_NoTimeout ==
  [][(isListening /\ FramePending) =>
       \/ isListening' /\ FramePending'
       \/ DetectionStep
       \/ UnmountStep]_vars

\* A session still listening, with the next frame requested, after a frame
\* that was not a thump.
C20_Witness ==
  /\ isListening
  /\ FramePending
  /\ animationFrameId = 2
  /\ session > 0
  /\ log[IF session > 0 THEN session ELSE 1].detections = 0

(***************************************************************************)
(* calculateRipeness as a function of the frequency, the mass and the      *)
(* result it finds (SpecRipeness).  The function has no throw statement    *)
(* and assigns nothing but fields of result: the error message it leaves   *)
(* is the one it found.                                                    *)
(***************************************************************************)
RipenessFrequencies == { FromInt(25 * k) : k \in 0..12 }

\* The result left by an earlier detection.
EarlierResult == calculateRipeness(FromInt(150), 8, NoResult)

InitRipeness ==
  /\ InitProgram
  /\ massKg = 8
  /\ supported
  /\ probe \in { [kind |-> "ripeness", frequency |-> f, massKg |-> m,
                  result |-> r, error |-> "null"] :
                 f \in RipenessFrequencies, m \in MassInputs,
                 r \in {NoResult, EarlierResult} }
  /\ probeOut = NoProbe

\* One call of calculateRipeness on the inputs of the probe.
ApplyRipeness ==
  /\ probe.kind = "ripeness"
  /\ probeOut = NoProbe
  /\ probeOut' = [result |-> calculateRipeness(probe.frequency, probe.massKg,
                                               probe.result),
                  error  |-> probe.error]
  /\ UNCHANGED <<massKg, sensitivity, isListening, error, result, audioContext,
                 analyser, animationFrameId, mediaStream, mounted, supported,
                 awaiting, rafQueue, liveStreams, session, log, lastClick,
                 probe>>

SpecRipeness == InitRipeness /\ [][ApplyRipeness]_vars

RipenessApplied == probe.kind = "ripeness" /\ probeOut # NoProbe

\* C14 as stated: with a mass <= 0 the computation reports an error and
\* writes no result field.
C14_ValidationError ==
  (RipenessApplied /\ probe.massKg <= 0) =>
    /\ probeOut.error # "null"
    /\ probeOut.result = probe.result

\* C14, amended: with a mass <= 0 the computation returns silently, neither
\* writing a result field nor reporting an error; with a positive mass it
\* writes every result field.
C14_SilentReturn ==
  RipenessApplied =>
    IF probe.massKg <= 0
    THEN /\ probeOut.result = probe.result
         /\ probeOut.error = "null"
    ELSE /\ Populated(probeOut.result)
         /\ probeOut.result.baseFrequency = probe.frequency

\* The computation ran with mass 0 over an earlier result and left it.
C14_Witness ==
  /\ RipenessApplied
  /\ probe.massKg = 0
  /\ probe.frequency = FromInt(150)
  /\ probe.result = EarlierResult
  /\ probeOut.result = EarlierResult

(***************************************************************************)
(* One run of processAudio with the outcome of drawVisualization as an     *)
(* input (SpecTick).  drawVisualization returns early without a canvas or  *)
(* a 2d context, draws, or throws out of the frame callback; it is the     *)
(* last statement of processAudio.                                         *)
(***************************************************************************)
SinkOutcomes == {"drawn", "noCanvas", "throws"}

\* processAudio in which drawVisualization is called before the frame is
\* examined: an exception of the drawing ends the callback there.
processAudioOutcomeDrawFirst(dataArray, sampleRate, s, m, res, sink) ==
  LET a == Analyse(dataArray, sampleRate, s)
  IN  IF sink = "throws"
      THEN [thump |-> FALSE, result |-> res, stopped |-> FALSE,
            requested |-> FALSE, uncaught |-> TRUE]
      ELSE [thump     |-> a.thump,
            result    |-> IF a.thump
                          THEN calculateRipeness(a.baseFrequency, m, res)
                          ELSE res,
            stopped   |-> a.thump,
            requested |-> ~a.thump,
            uncaught  |-> FALSE]

\* What one run of processAudio has done when it ends: the decision, the
\* result, whether stopListening ran, whether the next frame was requested,
\* and whether an exception left the callback.
processAudioOutcome(dataArray, sampleRate, s, m, res, sink) ==
  LET a == Analyse(dataArray, sampleRate, s)
  IN  [thump     |-> a.thump,
       result    |-> IF a.thump
                     THEN calculateRipeness(a.baseFrequency, m, res)
                     ELSE res,
       stopped   |-> a.thump,
       requested |-> ~a.thump,
       uncaught  |-> sink = "throws"]

InitTick ==
  /\ InitProgram
  /\ massKg = 8
  /\ supported
  /\ probe \in { [kind |-> "tick", sensitivity |-> s, sampleRate |-> r,
                  dataArray |-> f, sink |-> k] :
                 s \in {1, 8, 17}, r \in SampleRates, f \in Frames,
                 k \in SinkOutcomes }
  /\ probeOut = NoProbe

\* One run of processAudio on the frame and the drawing outcome of the probe.
ApplyTick ==
  /\ probe.kind = "tick"
  /\ probeOut = NoProbe
  /\ probeOut' = processAudioOutcome(probe.dataArray, probe.sampleRate,
                                     probe.sensitivity, massKg, result,
                                     probe.sink)
  /\ UNCHANGED <<massKg, sensitivity, isListening, error, result, audioContext,
                 analyser, animationFrameId, mediaStream, mounted, supported,
                 awaiting, rafQueue, liveStreams, session, log, lastClick,
                 probe>>

SpecTick == InitTick /\ [][ApplyTick]_vars

TickApplied == probe.kind = "tick" /\ probeOut # NoProbe

\* C21: whatever the outcome of the drawing, the decision of the tick, the
\* result it writes, the stop and the request of the next frame are those of
\* a tick whose drawing succeeded.
C21_SinkFailureHarmless ==
  TickApplied =>
    LET drawn == processAudioOutcome(probe.dataArray, probe.sampleRate,
                                     probe.sensitivity, massKg, result,
                                     "drawn")
    IN  /\ probeOut.thump = drawn.thump
        /\ probeOut.result = drawn.result
        /\ probeOut.stopped = drawn.stopped
        /\ probeOut.requested = drawn.requested

\* The drawing threw in a tick that detected a thump and wrote the result.
C21_Witness ==
  /\ TickApplied
  /\ probe.sink = "throws"
  /\ probeOut.uncaught
  /\ probeOut.thump
  /\ Populated(probeOut.result)
  /\ probeOut.stopped

(***************************************************************************)
(* Release of the microphone (under Spec).                                 *)
(***************************************************************************)
\* C22: whenever the detector is idle, no stream that a session acquired is
\* live: neither after a detection, nor after a stop (during capture setup
\* included), nor after a setup failure that followed the grant.
C22_NoLiveStreamWhenIdle ==
  ~isListening => liveStreams = {}

=============================================================================
